---- MODULE Spec2Model ----
(***************************************************************************)
(* Model of src/parser.py: the recursive-descent parser that turns a token *)
(* sequence into a GeneratorDescription.                                   *)
(*                                                                         *)
(* parse(tokens) is one sequential procedure; pc holds the source line of  *)
(* the statement executed next ("L115" is the statement at line 115 of     *)
(* parser.py).  The token sequence is the input of parse.  It is revealed  *)
(* one token at a time, when the parser first reads a position: parse is   *)
(* deterministic and never looks further than the cursor, so the behaviours*)
(* are those of parse on every token sequence of at most MaxLen tokens.    *)
(* `ended` says that the input has no token after the revealed ones.       *)
(* The cursor index is 0-based as in the source; tokens[index + 1] is the  *)
(* token Python reads as self.tokens[self.index].                          *)
(***************************************************************************)
EXTENDS Integers, Sequences, FiniteSets, TLC

\* Longest token sequence given to parse.
MaxLen == 14

(***************************************************************************)
(* Tokens                                                                  *)
(***************************************************************************)
TokenType ==
    {"STRING_LITERAL", "TYPE", "IDENTIFIER", "LEFT_PARENTHESIS", "FUNCTION",
     "RIGHT_PARENTHESIS", "EQUALS", "PIPE", "END_OF_INPUT", "BY_MOVE", "IMPLEMENT"}

\* A lexeme is a Python str: the sequence of its characters, each character being
\* its code point (ord).  The identifiers are "a" and "b".
IdentifierLexemes == { <<97>>, <<98>> }

\* A string literal's lexeme includes its two quote characters: the literal is
\* a quote, a carriage return, "x", a space and a quote.
StringLexemes == { <<39, 13, 120, 32, 39>> }

\* "type", "(", "fn", ")", "=", "|", "", "by", "im"
KeywordLexeme(type_) ==
    CASE type_ = "TYPE" -> <<116, 121, 112, 101>>
      [] type_ = "LEFT_PARENTHESIS" -> <<40>>
      [] type_ = "FUNCTION" -> <<102, 110>>
      [] type_ = "RIGHT_PARENTHESIS" -> <<41>>
      [] type_ = "EQUALS" -> <<61>>
      [] type_ = "PIPE" -> <<124>>
      [] type_ = "END_OF_INPUT" -> <<>>
      [] type_ = "BY_MOVE" -> <<98, 121>>
      [] type_ = "IMPLEMENT" -> <<105, 109>>

Token ==
    [type_ : {"IDENTIFIER"}, lexeme : IdentifierLexemes]
    \cup [type_ : {"STRING_LITERAL"}, lexeme : StringLexemes]
    \cup { [type_ |-> t, lexeme |-> KeywordLexeme(t)] :
             t \in TokenType \ {"IDENTIFIER", "STRING_LITERAL"} }

(***************************************************************************)
(* Pure helpers                                                            *)
(***************************************************************************)
\* The characters str.strip() removes: those for which str.isspace() holds.
\* U+0009..U+000D, U+001C..U+001F, U+0020, U+0085, U+00A0, U+1680,
\* U+2000..U+200A, U+2028, U+2029, U+202F, U+205F, U+3000.
IsSpace(c) ==
    c \in (9..13) \cup (28..32) \cup {133, 160, 5760} \cup (8192..8202)
          \cup {8232, 8233, 8239, 8287, 12288}

RECURSIVE lstrip(_)
lstrip(s) == IF s # <<>> /\ IsSpace(Head(s)) THEN lstrip(Tail(s)) ELSE s

RECURSIVE rstrip(_)
rstrip(s) ==
    IF s # <<>> /\ IsSpace(s[Len(s)]) THEN rstrip(SubSeq(s, 1, Len(s) - 1)) ELSE s

\* str.strip()
strip(s) == rstrip(lstrip(s))

\* lexeme[1:-1].strip()
StripLiteral(lexeme) ==
    strip(IF Len(lexeme) < 2 THEN <<>> ELSE SubSeq(lexeme, 2, Len(lexeme) - 1))

\* [x.name for x in list]
Names(list) == [i \in 1..Len(list) |-> list[i].name]

\* set(x.name for x in list)
NameSet(list) == { list[i].name : i \in 1..Len(list) }

\* A dict is the sequence of its (key, value) items in insertion order.
Keys(d) == { d[i].key : i \in 1..Len(d) }

\* dict.setdefault(k, v) in the place of d[k] = v: an existing key keeps its value.
SetItem_KeepFirst(d, k, v) ==
    IF k \in Keys(d) THEN d ELSE Append(d, [key |-> k, value |-> v])

\* d[k] = v: a new key is appended, an existing key keeps its place and gets v.
SetItem(d, k, v) ==
    IF k \in Keys(d)
    THEN [i \in 1..Len(d) |-> IF d[i].key = k THEN [key |-> k, value |-> v] ELSE d[i]]
    ELSE Append(d, [key |-> k, value |-> v])

Member(name_, by_move_, type__) == [name |-> name_, by_move |-> by_move_, type_ |-> type__]

\* return_type is <<>> for None and <<text>> for a string.
PureVirtualFunction(name_, return_type_) == [name |-> name_, return_type |-> return_type_]

Implementation(name_, body_) == [name |-> name_, body |-> body_]

AbstractType(sub_types_, members_, pure_virtual_functions_) ==
    [sub_types |-> sub_types_, members |-> members_,
     pure_virtual_functions |-> pure_virtual_functions_]

GeneratorDescription(prelude_, type_definitions_, abstract_types_, postlude_) ==
    [prelude |-> prelude_, type_definitions |-> type_definitions_,
     abstract_types |-> abstract_types_, postlude |-> postlude_]

(***************************************************************************)
(* Exceptions                                                              *)
(***************************************************************************)
NoError == [class |-> "none", message |-> "", expected |-> "", got |-> ""]

ParserError(message_) ==
    [class |-> "ParserError", message |-> message_, expected |-> "", got |-> ""]

UnexpectedTokenType(expected_, got_) ==
    [class |-> "ParserError", message |-> "unexpected token type",
     expected |-> expected_, got |-> got_]

\* self.tokens[self.index] with the index out of range
IndexError ==
    [class |-> "IndexError", message |-> "list index out of range",
     expected |-> "", got |-> ""]

\* PolymorphicType.__init__ without the check of lines 41-43.
PolymorphicType_init_NoSetCheck(pure_virtual_functions, implementations) ==
    IF Cardinality(NameSet(pure_virtual_functions)) # Len(Names(pure_virtual_functions))
    THEN ParserError("duplicate declaration of pure virtual functions")
    ELSE IF Cardinality(NameSet(implementations)) # Len(Names(implementations))
    THEN ParserError("duplicate implementation")
    ELSE NoError

\* PolymorphicType.__init__ without the check of lines 35-37.
PolymorphicType_init_NoDeclarationCheck(pure_virtual_functions, implementations) ==
    IF Cardinality(NameSet(implementations)) # Len(Names(implementations))
    THEN ParserError("duplicate implementation")
    ELSE IF NameSet(pure_virtual_functions) # NameSet(implementations)
    THEN ParserError("not all pure virtual functions are implemented")
    ELSE NoError

\* PolymorphicType.__init__ with the checks of lines 35-37 and 38-40 exchanged.
PolymorphicType_init_ImplementationsFirst(pure_virtual_functions, implementations) ==
    IF Cardinality(NameSet(implementations)) # Len(Names(implementations))
    THEN ParserError("duplicate implementation")
    ELSE IF Cardinality(NameSet(pure_virtual_functions)) # Len(Names(pure_virtual_functions))
    THEN ParserError("duplicate declaration of pure virtual functions")
    ELSE IF NameSet(pure_virtual_functions) # NameSet(implementations)
    THEN ParserError("not all pure virtual functions are implemented")
    ELSE NoError

\* The checks of PolymorphicType.__init__: the error raised, or NoError.
PolymorphicType_init(pure_virtual_functions, implementations) ==
    IF Cardinality(NameSet(pure_virtual_functions)) # Len(Names(pure_virtual_functions))
    THEN ParserError("duplicate declaration of pure virtual functions")
    ELSE IF Cardinality(NameSet(implementations)) # Len(Names(implementations))
    THEN ParserError("duplicate implementation")
    ELSE IF NameSet(pure_virtual_functions) # NameSet(implementations)
    THEN ParserError("not all pure virtual functions are implemented")
    ELSE NoError

PolymorphicType(pure_virtual_functions_, members_, implementations_) ==
    [pure_virtual_functions |-> pure_virtual_functions_, members |-> members_,
     implementations |-> implementations_]

(***************************************************************************)
(* State                                                                   *)
(***************************************************************************)
VARIABLES
    tokens,             \* Parser.tokens: the tokens revealed so far
    ended,              \* TRUE when len(tokens) is Len(tokens)
    index,              \* Parser.index
    pc,                 \* line of the next statement, or "done" / "fail"
    error,              \* the exception raised, NoError while none is
    result,             \* <<>> until parse returns, then <<GeneratorDescription>>
    prelude, postlude, type_definitions, polymorphic_types,     \* locals of parse
    identifier, base_type_members, functions, sub_types,        \* locals of parse
    name, members, implementations,                             \* a sub-type
    member_name, by_move, caller,         \* parse_data_member and who called it
    function_identifier, function_name    \* operation / implementation name

inp == <<tokens, ended>>
ast == <<result, prelude, postlude, type_definitions, polymorphic_types>>
typ == <<identifier, base_type_members, functions, sub_types>>
sub == <<name, members, implementations>>
mem == <<member_name, by_move, caller>>
fun == <<function_identifier, function_name>>
vars == <<inp, index, pc, error, ast, typ, sub, mem, fun>>

Init ==
    /\ tokens = <<>>
    /\ ended = FALSE
    /\ index = 0
    /\ pc = "L115"
    /\ error = NoError
    /\ result = <<>>
    /\ prelude = <<>>
    /\ postlude = <<>>
    /\ type_definitions = <<>>
    /\ polymorphic_types = <<>>
    /\ identifier = <<>>
    /\ base_type_members = <<>>
    /\ functions = <<>>
    /\ sub_types = <<>>
    /\ name = <<>>
    /\ members = <<>>
    /\ implementations = <<>>
    /\ member_name = <<>>
    /\ by_move = FALSE
    /\ caller = "none"
    /\ function_identifier = <<>>
    /\ function_name = <<>>

(***************************************************************************)
(* Parser (the cursor)                                                     *)
(***************************************************************************)
\* The position of the cursor holds a token.
InRange == index < Len(tokens)

\* Whether the position holds a token is decided.
Known == InRange \/ ended

\* Parser.current(), where InRange
current == tokens[index + 1]

\* Parser.is_end_of_input()
is_end_of_input == index >= Len(tokens) \/ current.type_ = "END_OF_INPUT"

\* Parser.consume(type_): the error it raises, NoError when it advances.
consume_error(type_) ==
    IF is_end_of_input THEN ParserError("unexpected end of input")
    ELSE IF current.type_ # type_ THEN UnexpectedTokenType(type_, current.type_)
    ELSE NoError

\* raise e
Raise(e) ==
    /\ pc' = "fail"
    /\ error' = e
    /\ UNCHANGED <<inp, index, ast, typ, sub, mem, fun>>

\* The statements that read the token at the cursor.
ReadingPcs ==
    {"L115", "L121", "L125", "L126", "L129", "L130", "L133", "L137", "L138", "L139",
     "L140", "L144", "L145", "L150", "L162", "L169", "L170", "L174", "L180",
     "L185", "L186", "L189", "L194", "L195", "L196"}

\* The input: the token at the position the parser is about to read, or the end
\* of the sequence.
NextToken ==
    /\ pc \in ReadingPcs
    /\ index = Len(tokens)
    /\ ~ended
    /\ \/ /\ ended' = TRUE
          /\ UNCHANGED tokens
       \/ /\ Len(tokens) < MaxLen
          /\ \E t \in Token : tokens' = Append(tokens, t)
          /\ UNCHANGED ended
    /\ UNCHANGED <<index, pc, error, ast, typ, sub, mem, fun>>

(***************************************************************************)
(* parse                                                                   *)
(***************************************************************************)
\* 115-120: the prelude, if the first token is a string literal
L115 ==
    /\ pc = "L115"
    /\ Known
    /\ IF ~InRange THEN Raise(IndexError)
       ELSE IF current.type_ = "STRING_LITERAL"
       THEN /\ prelude' = StripLiteral(current.lexeme)
            /\ index' = index + 1
            /\ pc' = "L121"
            /\ UNCHANGED <<inp, error, result, postlude, type_definitions,
                           polymorphic_types, typ, sub, mem, fun>>
       ELSE /\ prelude' = <<>>
            /\ pc' = "L121"
            /\ UNCHANGED <<inp, index, error, result, postlude, type_definitions,
                           polymorphic_types, typ, sub, mem, fun>>

\* 121-124, 128, 156-161: the file-level loop and its dispatch
L121 ==
    /\ pc = "L121"
    /\ Known
    /\ IF is_end_of_input
       THEN /\ pc' = "L162"
            /\ UNCHANGED <<inp, index, error, ast, typ, sub, mem, fun>>
       ELSE IF current.type_ = "TYPE"
       THEN /\ index' = index + 1
            /\ pc' = "L125"
            /\ UNCHANGED <<inp, error, ast, typ, sub, mem, fun>>
       ELSE IF current.type_ = "IDENTIFIER"
       THEN /\ pc' = "L129"
            /\ UNCHANGED <<inp, index, error, ast, typ, sub, mem, fun>>
       ELSE IF current.type_ = "STRING_LITERAL"
       THEN /\ postlude' = StripLiteral(current.lexeme)
            /\ index' = index + 1
            /\ pc' = "L162"
            /\ UNCHANGED <<inp, error, result, prelude, type_definitions,
                           polymorphic_types, typ, sub, mem, fun>>
       ELSE Raise(ParserError("unexpected token"))

\* 125: identifier = parser.consume(TokenType.IDENTIFIER)
L125 ==
    /\ pc = "L125"
    /\ Known
    /\ IF consume_error("IDENTIFIER") # NoError THEN Raise(consume_error("IDENTIFIER"))
       ELSE /\ identifier' = current.lexeme
            /\ index' = index + 1
            /\ pc' = "L126"
            /\ UNCHANGED <<inp, error, ast, base_type_members, functions, sub_types,
                           sub, mem, fun>>

\* 126-127: the contents of the type definition
L126 ==
    /\ pc = "L126"
    /\ Known
    /\ IF consume_error("STRING_LITERAL") # NoError
       THEN Raise(consume_error("STRING_LITERAL"))
       ELSE /\ type_definitions' =
                  Append(type_definitions, <<identifier, StripLiteral(current.lexeme)>>)
            /\ index' = index + 1
            /\ pc' = "L121"
            /\ UNCHANGED <<inp, error, result, prelude, postlude, polymorphic_types,
                           typ, sub, mem, fun>>

\* 129: identifier = parser.consume(TokenType.IDENTIFIER)
L129 ==
    /\ pc = "L129"
    /\ Known
    /\ IF consume_error("IDENTIFIER") # NoError THEN Raise(consume_error("IDENTIFIER"))
       ELSE /\ identifier' = current.lexeme
            /\ index' = index + 1
            /\ pc' = "L130"
            /\ UNCHANGED <<inp, error, ast, base_type_members, functions, sub_types,
                           sub, mem, fun>>

\* 130-132: parser.consume(TokenType.LEFT_PARENTHESIS)
L130 ==
    /\ pc = "L130"
    /\ Known
    /\ IF consume_error("LEFT_PARENTHESIS") # NoError
       THEN Raise(consume_error("LEFT_PARENTHESIS"))
       ELSE /\ base_type_members' = <<>>
            /\ index' = index + 1
            /\ pc' = "L133"
            /\ UNCHANGED <<inp, error, ast, identifier, functions, sub_types,
                           sub, mem, fun>>

\* 133-136: the loop of the shared members
L133 ==
    /\ pc = "L133"
    /\ Known
    /\ IF ~InRange THEN Raise(IndexError)
       ELSE IF current.type_ = "IDENTIFIER"
       THEN /\ caller' = "parse"
            /\ pc' = "L185"
            /\ UNCHANGED <<inp, index, error, ast, typ, sub, member_name, by_move, fun>>
       ELSE /\ functions' = <<>>
            /\ pc' = "L137"
            /\ UNCHANGED <<inp, index, error, ast, identifier, base_type_members,
                           sub_types, sub, mem, fun>>

\* Line 137 as a loop that goes back to the members on an identifier.
L137_BackToMembers ==
    /\ pc = "L137"
    /\ Known
    /\ IF ~InRange THEN Raise(IndexError)
       ELSE /\ pc' = IF current.type_ = "FUNCTION" THEN "L138"
                     ELSE IF current.type_ = "IDENTIFIER" THEN "L185"
                     ELSE "L144"
            /\ caller' = IF current.type_ = "IDENTIFIER" THEN "parse" ELSE caller
            /\ UNCHANGED <<inp, index, error, ast, typ, sub, member_name, by_move, fun>>

\* 137: the loop of the operation declarations
L137 ==
    /\ pc = "L137"
    /\ Known
    /\ IF ~InRange THEN Raise(IndexError)
       ELSE /\ pc' = IF current.type_ = "FUNCTION" THEN "L138" ELSE "L144"
            /\ UNCHANGED <<inp, index, error, ast, typ, sub, mem, fun>>

\* 138: parser.consume(TokenType.FUNCTION)
L138 ==
    /\ pc = "L138"
    /\ Known
    /\ IF consume_error("FUNCTION") # NoError THEN Raise(consume_error("FUNCTION"))
       ELSE /\ index' = index + 1
            /\ pc' = "L139"
            /\ UNCHANGED <<inp, error, ast, typ, sub, mem, fun>>

\* 139: function_identifier = parser.consume(TokenType.IDENTIFIER).lexeme
L139 ==
    /\ pc = "L139"
    /\ Known
    /\ IF consume_error("IDENTIFIER") # NoError THEN Raise(consume_error("IDENTIFIER"))
       ELSE /\ function_identifier' = current.lexeme
            /\ index' = index + 1
            /\ pc' = "L140"
            /\ UNCHANGED <<inp, error, ast, typ, sub, mem, function_name>>

\* 140-142: the return type; an empty one is None
L140 ==
    /\ pc = "L140"
    /\ Known
    /\ IF consume_error("STRING_LITERAL") # NoError
       THEN Raise(consume_error("STRING_LITERAL"))
       ELSE /\ LET return_type_string == StripLiteral(current.lexeme)
                   function_return_type ==
                       IF Len(return_type_string) > 0 THEN <<return_type_string>>
                       ELSE <<>>
               IN functions' = Append(functions,
                      PureVirtualFunction(function_identifier, function_return_type))
            /\ index' = index + 1
            /\ pc' = "L137"
            /\ UNCHANGED <<inp, error, ast, identifier, base_type_members, sub_types,
                           sub, mem, fun>>

\* 144: parser.consume(TokenType.RIGHT_PARENTHESIS)
L144 ==
    /\ pc = "L144"
    /\ Known
    /\ IF consume_error("RIGHT_PARENTHESIS") # NoError
       THEN Raise(consume_error("RIGHT_PARENTHESIS"))
       ELSE /\ index' = index + 1
            /\ pc' = "L145"
            /\ UNCHANGED <<inp, error, ast, typ, sub, mem, fun>>

\* 145-146: parser.consume(TokenType.EQUALS); sub_types = dict()
L145 ==
    /\ pc = "L145"
    /\ Known
    /\ IF consume_error("EQUALS") # NoError THEN Raise(consume_error("EQUALS"))
       ELSE /\ sub_types' = <<>>
            /\ index' = index + 1
            /\ pc' = "L169"
            /\ UNCHANGED <<inp, error, ast, identifier, base_type_members, functions,
                           sub, mem, fun>>

\* 148-149 and 153-154: construct the sub-type and store it under its name
L148 ==
    /\ pc = "L148"
    /\ IF PolymorphicType_init(functions, implementations) # NoError
       THEN Raise(PolymorphicType_init(functions, implementations))
       ELSE /\ sub_types' = SetItem(sub_types, name,
                                    PolymorphicType(functions, members, implementations))
            /\ pc' = "L150"
            /\ UNCHANGED <<inp, index, error, ast, identifier, base_type_members,
                           functions, sub, mem, fun>>

\* 150-151, 155: the loop of the further sub-types; the abstract type is stored
L150 ==
    /\ pc = "L150"
    /\ Known
    /\ IF ~InRange THEN Raise(IndexError)
       ELSE IF current.type_ = "PIPE"
       THEN /\ index' = index + 1
            /\ pc' = "L169"
            /\ UNCHANGED <<inp, error, ast, typ, sub, mem, fun>>
       ELSE /\ polymorphic_types' =
                  SetItem(polymorphic_types, identifier,
                          AbstractType(sub_types, base_type_members, functions))
            /\ pc' = "L121"
            /\ UNCHANGED <<inp, index, error, result, prelude, postlude,
                           type_definitions, typ, sub, mem, fun>>

\* Lines 162-165 without the check of lines 162-164.
L162_NoCheck ==
    /\ pc = "L162"
    /\ Known
    /\ result' = <<GeneratorDescription(prelude, type_definitions,
                                        polymorphic_types, postlude)>>
    /\ pc' = "done"
    /\ UNCHANGED <<inp, index, error, prelude, postlude, type_definitions,
                   polymorphic_types, typ, sub, mem, fun>>

\* 162-165: after the loop
L162 ==
    /\ pc = "L162"
    /\ Known
    /\ IF ~is_end_of_input
       THEN Raise(ParserError("the postlude must be the last part of the file"))
       ELSE /\ result' = <<GeneratorDescription(prelude, type_definitions,
                                                polymorphic_types, postlude)>>
            /\ pc' = "done"
            /\ UNCHANGED <<inp, index, error, prelude, postlude, type_definitions,
                           polymorphic_types, typ, sub, mem, fun>>

(***************************************************************************)
(* parse_subtype                                                           *)
(***************************************************************************)
\* 169: identifier = parser.consume(TokenType.IDENTIFIER)
L169 ==
    /\ pc = "L169"
    /\ Known
    /\ IF consume_error("IDENTIFIER") # NoError THEN Raise(consume_error("IDENTIFIER"))
       ELSE /\ name' = current.lexeme
            /\ index' = index + 1
            /\ pc' = "L170"
            /\ UNCHANGED <<inp, error, ast, typ, members, implementations, mem, fun>>

\* 170-172: parser.consume(TokenType.LEFT_PARENTHESIS)
L170 ==
    /\ pc = "L170"
    /\ Known
    /\ IF consume_error("LEFT_PARENTHESIS") # NoError
       THEN Raise(consume_error("LEFT_PARENTHESIS"))
       ELSE /\ members' = <<>>
            /\ implementations' = <<>>
            /\ index' = index + 1
            /\ pc' = "L174"
            /\ UNCHANGED <<inp, error, ast, typ, name, mem, fun>>

\* Lines 173-179 without the break of lines 178-179.
L174_NoBreak ==
    /\ pc = "L174"
    /\ Known
    /\ IF ~InRange THEN Raise(IndexError)
       ELSE IF current.type_ = "IDENTIFIER"
       THEN /\ caller' = "parse_subtype"
            /\ pc' = "L185"
            /\ UNCHANGED <<inp, index, error, ast, typ, sub, member_name, by_move, fun>>
       ELSE /\ pc' = IF current.type_ = "IMPLEMENT" THEN "L194" ELSE "L174"
            /\ UNCHANGED <<inp, index, error, ast, typ, sub, mem, fun>>

\* 173-179: the loop of the body of the sub-type
L174 ==
    /\ pc = "L174"
    /\ Known
    /\ IF ~InRange THEN Raise(IndexError)
       ELSE IF current.type_ = "IDENTIFIER"
       THEN /\ caller' = "parse_subtype"
            /\ pc' = "L185"
            /\ UNCHANGED <<inp, index, error, ast, typ, sub, member_name, by_move, fun>>
       ELSE /\ pc' = IF current.type_ = "IMPLEMENT" THEN "L194" ELSE "L180"
            /\ UNCHANGED <<inp, index, error, ast, typ, sub, mem, fun>>

\* 180-181: parser.consume(TokenType.RIGHT_PARENTHESIS); return
L180 ==
    /\ pc = "L180"
    /\ Known
    /\ IF consume_error("RIGHT_PARENTHESIS") # NoError
       THEN Raise(consume_error("RIGHT_PARENTHESIS"))
       ELSE /\ index' = index + 1
            /\ pc' = "L148"
            /\ UNCHANGED <<inp, error, ast, typ, sub, mem, fun>>

(***************************************************************************)
(* parse_data_member                                                       *)
(***************************************************************************)
\* 185: member_name = parser.consume(TokenType.IDENTIFIER)
L185 ==
    /\ pc = "L185"
    /\ Known
    /\ IF consume_error("IDENTIFIER") # NoError THEN Raise(consume_error("IDENTIFIER"))
       ELSE /\ member_name' = current.lexeme
            /\ index' = index + 1
            /\ pc' = "L186"
            /\ UNCHANGED <<inp, error, ast, typ, sub, by_move, caller, fun>>

\* Lines 186-188 with parser.next() outside the if.
L186_AlwaysNext ==
    /\ pc = "L186"
    /\ Known
    /\ IF ~InRange THEN Raise(IndexError)
       ELSE /\ by_move' = (current.type_ = "BY_MOVE")
            /\ index' = index + 1
            /\ pc' = "L189"
            /\ UNCHANGED <<inp, error, ast, typ, sub, member_name, caller, fun>>

\* 186-188: by_move, consumed when present
L186 ==
    /\ pc = "L186"
    /\ Known
    /\ IF ~InRange THEN Raise(IndexError)
       ELSE /\ by_move' = (current.type_ = "BY_MOVE")
            /\ index' = IF current.type_ = "BY_MOVE" THEN index + 1 ELSE index
            /\ pc' = "L189"
            /\ UNCHANGED <<inp, error, ast, typ, sub, member_name, caller, fun>>

\* 189-190: the type of the member; return to the caller, which appends it
L189 ==
    /\ pc = "L189"
    /\ Known
    /\ IF consume_error("STRING_LITERAL") # NoError
       THEN Raise(consume_error("STRING_LITERAL"))
       ELSE /\ LET member == Member(member_name, by_move, StripLiteral(current.lexeme))
               IN IF caller = "parse"
                  THEN /\ base_type_members' = Append(base_type_members, member)
                       /\ pc' = "L133"
                       /\ UNCHANGED members
                  ELSE /\ members' = Append(members, member)
                       /\ pc' = "L174"
                       /\ UNCHANGED base_type_members
            /\ index' = index + 1
            /\ UNCHANGED <<inp, error, ast, identifier, functions, sub_types, name,
                           implementations, mem, fun>>

(***************************************************************************)
(* parse_implementation                                                    *)
(***************************************************************************)
\* 194: parser.consume(TokenType.IMPLEMENT)
L194 ==
    /\ pc = "L194"
    /\ Known
    /\ IF consume_error("IMPLEMENT") # NoError THEN Raise(consume_error("IMPLEMENT"))
       ELSE /\ index' = index + 1
            /\ pc' = "L195"
            /\ UNCHANGED <<inp, error, ast, typ, sub, mem, fun>>

\* 195: function_name = parser.consume(TokenType.IDENTIFIER).lexeme
L195 ==
    /\ pc = "L195"
    /\ Known
    /\ IF consume_error("IDENTIFIER") # NoError THEN Raise(consume_error("IDENTIFIER"))
       ELSE /\ function_name' = current.lexeme
            /\ index' = index + 1
            /\ pc' = "L196"
            /\ UNCHANGED <<inp, error, ast, typ, sub, mem, function_identifier>>

\* 196-197: the body; return to parse_subtype, which appends the implementation
L196 ==
    /\ pc = "L196"
    /\ Known
    /\ IF consume_error("STRING_LITERAL") # NoError
       THEN Raise(consume_error("STRING_LITERAL"))
       ELSE /\ implementations' =
                  Append(implementations,
                         Implementation(function_name, StripLiteral(current.lexeme)))
            /\ index' = index + 1
            /\ pc' = "L174"
            /\ UNCHANGED <<inp, error, ast, typ, name, members, mem, fun>>

Next ==
    \/ NextToken
    \/ L115 \/ L121 \/ L125 \/ L126 \/ L129 \/ L130 \/ L133 \/ L137 \/ L138
    \/ L139 \/ L140 \/ L144 \/ L145 \/ L148 \/ L150 \/ L162
    \/ L169 \/ L170 \/ L174 \/ L180
    \/ L185 \/ L186 \/ L189
    \/ L194 \/ L195 \/ L196

Spec == Init /\ [][Next]_vars

\* parse runs to its end: no statement is postponed forever.
FairSpec == Spec /\ WF_vars(Next)

(***************************************************************************)
(* PolymorphicType(...) on its own: the constructor applied at lines       *)
(* 148-149 to every pair of lists of at most MaxNames operation            *)
(* declarations and implementations.                                       *)
(***************************************************************************)
\* Longest list of declarations or implementations given to the constructor.
MaxNames == 3

RECURSIVE ListsOf(_, _)
ListsOf(S, n) ==
    IF n = 0 THEN { <<>> }
    ELSE ListsOf(S, n - 1)
         \cup { Append(l, x) : l \in { m \in ListsOf(S, n - 1) : Len(m) = n - 1 }, x \in S }

ConstructorInit ==
    /\ tokens = <<>>
    /\ ended = FALSE
    /\ index = 0
    /\ pc = "L148"
    /\ error = NoError
    /\ result = <<>>
    /\ prelude = <<>>
    /\ postlude = <<>>
    /\ type_definitions = <<>>
    /\ polymorphic_types = <<>>
    /\ identifier = <<>>
    /\ base_type_members = <<>>
    /\ functions \in ListsOf({ PureVirtualFunction(n, <<>>) : n \in IdentifierLexemes },
                             MaxNames)
    /\ sub_types = <<>>
    /\ name \in IdentifierLexemes
    /\ members = <<>>
    /\ implementations \in ListsOf({ Implementation(n, <<>>) : n \in IdentifierLexemes },
                                   MaxNames)
    /\ member_name = <<>>
    /\ by_move = FALSE
    /\ caller = "none"
    /\ function_identifier = <<>>
    /\ function_name = <<>>

ConstructorSpec == ConstructorInit /\ [][L148]_vars

(***************************************************************************)
(* Properties                                                              *)
(***************************************************************************)
\* Some name occurs twice in the list of names.
Repeats(names) == \E i, j \in 1..Len(names) : i < j /\ names[i] = names[j]

DuplicateDeclaration == ParserError("duplicate declaration of pure virtual functions")
DuplicateImplementation == ParserError("duplicate implementation")
NotAllImplemented == ParserError("not all pure virtual functions are implemented")
UnexpectedEndOfInput == ParserError("unexpected end of input")
PostludeNotLast == ParserError("the postlude must be the last part of the file")

\* The positions (from 1) of the tokens of a kind among the tokens read so far.
PositionsOf(type_) == { i \in 1..Len(tokens) : tokens[i].type_ = type_ }

Greatest(S) == CHOOSE x \in S : \A y \in S : y <= x

\* The abstract types of the GeneratorDescription that parse returned.
ReturnedTypes == { result[1].abstract_types[i].value :
                     i \in 1..Len(result[1].abstract_types) }

SubTypesOf(abstract_type) ==
    { abstract_type.sub_types[j].value : j \in 1..Len(abstract_type.sub_types) }

\* C1: in every GeneratorDescription that parse returns, every sub-type of every
\* abstract type implements exactly the declared operations: the two sets of names
\* are equal and neither list repeats a name.
C1_EveryOperationImplementedOnce ==
    pc = "done" =>
        \A t \in ReturnedTypes : \A v \in SubTypesOf(t) :
            /\ NameSet(v.implementations) = NameSet(t.pure_virtual_functions)
            /\ ~Repeats(Names(v.implementations))
            /\ ~Repeats(Names(t.pure_virtual_functions))
            /\ v.pure_virtual_functions = t.pure_virtual_functions

\* C1 witness: parse returned an abstract type with a declared operation and a
\* sub-type implementing it.
C1_Witness ==
    /\ pc = "done"
    /\ \E t \in ReturnedTypes :
           /\ t.pure_virtual_functions # <<>>
           /\ \E v \in SubTypesOf(t) : v.implementations # <<>>

\* C2 as stated: the duplicate-declaration error is raised while the cursor is at
\* or before the closing parenthesis of the declaration group, the token before
\* the "=" of the abstract type.
C2_RaisedBeforeAnyVariant ==
    error = DuplicateDeclaration =>
        (PositionsOf("EQUALS") = {} \/ index <= Greatest(PositionsOf("EQUALS")) - 2)

\* C2 amended: duplicate operation declarations are detected when the first
\* sub-type is constructed: the error is raised with the cursor just behind the
\* closing parenthesis of the first sub-type, before the token after it is read and
\* before anything is stored; a constructor that fails on duplicate declarations
\* fails with this error, and construction never succeeds with them.
C2_RaisedAtFirstVariant ==
    /\ error = DuplicateDeclaration =>
           /\ pc = "fail"
           /\ Repeats(Names(functions))
           /\ sub_types = <<>>
           /\ PositionsOf("EQUALS") # {}
           /\ index > Greatest(PositionsOf("EQUALS"))
           /\ tokens[index].type_ = "RIGHT_PARENTHESIS"
           /\ Len(tokens) = index
           /\ \A i \in Greatest(PositionsOf("EQUALS"))..index : tokens[i].type_ # "PIPE"
    /\ (error \in {DuplicateImplementation, NotAllImplemented}
            => ~Repeats(Names(functions)))
    /\ (pc = "L150" => ~Repeats(Names(functions)))

\* C2 witness: two declarations of one name, and the failure behind the first
\* sub-type.
C2_Witness ==
    /\ error = DuplicateDeclaration
    /\ Len(functions) = 2
    /\ index > Greatest(PositionsOf("EQUALS")) + 2

\* No token remains where the parser stands.
NoneRemains ==
    \/ ended /\ index >= Len(tokens)
    \/ InRange /\ current.type_ = "END_OF_INPUT"

\* C3 as stated: a failure where no token remains is the unexpected-end-of-input
\* parser error, also when the sequence has no end-of-input token.
C3_EndOfInputIsParserError ==
    (pc = "fail" /\ NoneRemains) => error = UnexpectedEndOfInput

\* C4: a string literal at file scope behind the first token is the postlude and
\* ends the file-level loop; whatever token other than end-of-input follows it,
\* parse fails with the postlude error without consuming it.
C4_NothingBehindThePostlude ==
    [][ /\ (pc = "L121" /\ InRange /\ current.type_ = "STRING_LITERAL")
            => /\ postlude' = StripLiteral(current.lexeme)
               /\ index' = index + 1
               /\ pc' = "L162"
        /\ (pc = "L162" /\ InRange /\ current.type_ # "END_OF_INPUT")
            => /\ tokens[index].type_ = "STRING_LITERAL"
               /\ pc' = "fail"
               /\ error' = PostludeNotLast
               /\ index' = index
               /\ result' = <<>>
        /\ (pc = "L162" => pc' \in {"L162", "done", "fail"})
      ]_vars

\* C4 witness: the postlude error on a token that begins no file-level construct.
C4_Witness ==
    /\ pc = "fail"
    /\ error = PostludeNotLast
    /\ current.type_ = "RIGHT_PARENTHESIS"
    /\ tokens[index].type_ = "STRING_LITERAL"
    /\ index > 1

\* C5: the constructor reports the first violated check, in the order duplicate
\* declarations, duplicate implementations, set-equality of the names.
C5_FirstViolatedCheck ==
    pc # "L148" =>
        error = IF Repeats(Names(functions)) THEN DuplicateDeclaration
                ELSE IF Repeats(Names(implementations)) THEN DuplicateImplementation
                ELSE IF NameSet(functions) # NameSet(implementations)
                THEN NotAllImplemented
                ELSE NoError

\* C5 witness: duplicate declarations and duplicate implementations at once.
C5_Witness ==
    /\ pc = "fail"
    /\ Repeats(Names(functions))
    /\ Repeats(Names(implementations))
    /\ error = DuplicateDeclaration

\* The statements that are a call of Parser.consume, with the kind they expect.
ConsumedAt ==
    [ L125 |-> "IDENTIFIER", L126 |-> "STRING_LITERAL", L129 |-> "IDENTIFIER",
      L130 |-> "LEFT_PARENTHESIS", L138 |-> "FUNCTION", L139 |-> "IDENTIFIER",
      L140 |-> "STRING_LITERAL", L144 |-> "RIGHT_PARENTHESIS", L145 |-> "EQUALS",
      L169 |-> "IDENTIFIER", L170 |-> "LEFT_PARENTHESIS",
      L180 |-> "RIGHT_PARENTHESIS", L185 |-> "IDENTIFIER",
      L189 |-> "STRING_LITERAL", L194 |-> "IMPLEMENT", L195 |-> "IDENTIFIER",
      L196 |-> "STRING_LITERAL" ]

\* The statements that call Parser.next directly, with the kinds they test before.
NextCalledAt ==
    [ L115 |-> {"STRING_LITERAL"}, L121 |-> {"TYPE", "STRING_LITERAL"},
      L150 |-> {"PIPE"}, L186 |-> {"BY_MOVE"} ]

\* C6 as stated: the cursor moves inside Parser.consume only.
C6_OnlyConsumeAdvances ==
    [][ index' # index => pc \in DOMAIN ConsumedAt ]_vars

\* C6 amended: the cursor moves by one token at a time, over a token that is not
\* the end-of-input token and whose kind was tested just before, either by
\* Parser.consume or by the statement that calls Parser.next itself.
C6_EveryAdvanceIsTested ==
    [][ index' # index =>
            /\ index' = index + 1
            /\ InRange
            /\ current.type_ # "END_OF_INPUT"
            /\ \/ pc \in DOMAIN ConsumedAt /\ current.type_ = ConsumedAt[pc]
               \/ pc \in DOMAIN NextCalledAt /\ current.type_ \in NextCalledAt[pc]
      ]_vars

\* C6 witness: the by_move keyword was skipped by a direct call of Parser.next.
C6_Witness ==
    /\ pc = "L189"
    /\ by_move
    /\ tokens[index].type_ = "BY_MOVE"

\* C7: parse ends, by returning or by failing, on every token sequence.
C7_Terminates == <>(pc \in {"done", "fail"})

\* C7 witness: parse returned after its file-level loop, the loop of the members
\* and the loop of the body of a sub-type each ran.
C7_Witness ==
    /\ pc = "done"
    /\ \E t \in ReturnedTypes :
           /\ t.members # <<>>
           /\ \E v \in SubTypesOf(t) : v.members # <<>>

\* C8: a sub-type whose name is already in sub_types is not rejected: it replaces
\* the value stored under that name, the mapping keeps one entry per name and the
\* other entries stay.
C8_LaterVariantReplaces ==
    /\ [](\A i, j \in 1..Len(sub_types) :
              sub_types[i].key = sub_types[j].key => i = j)
    /\ [][ ( /\ pc = "L148"
             /\ name \in Keys(sub_types)
             /\ ~Repeats(Names(functions))
             /\ ~Repeats(Names(implementations))
             /\ NameSet(functions) = NameSet(implementations) )
           => /\ pc' = "L150"
              /\ error' = NoError
              /\ Len(sub_types') = Len(sub_types)
              /\ \A i \in 1..Len(sub_types) :
                     /\ sub_types'[i].key = sub_types[i].key
                     /\ sub_types'[i].value =
                            IF sub_types[i].key = name
                            THEN PolymorphicType(functions, members, implementations)
                            ELSE sub_types[i].value
         ]_vars

\* C8 witness: parse returned one abstract type with one sub-type, read from two
\* sub-types of one name of which the earlier had no member and the later has one.
C8_Witness ==
    /\ pc = "done"
    /\ Len(result[1].abstract_types) = 1
    /\ \E t \in ReturnedTypes :
           /\ Len(t.sub_types) = 1
           /\ t.sub_types[1].value.members # <<>>
    /\ \E i \in PositionsOf("PIPE") :
           /\ tokens[i - 1].type_ = "RIGHT_PARENTHESIS"
           /\ tokens[i - 2].type_ = "LEFT_PARENTHESIS"
           /\ tokens[i - 3] = tokens[i + 1]

\* The positions (from 1) of an identifier that follows an operation declaration
\* the parser has consumed.
IdentifierBehindDeclaration ==
    { i \in 4..Len(tokens) :
        /\ tokens[i - 3].type_ = "FUNCTION"
        /\ tokens[i - 2].type_ = "IDENTIFIER"
        /\ tokens[i - 1].type_ = "STRING_LITERAL"
        /\ tokens[i].type_ = "IDENTIFIER"
        /\ index >= i - 1 }

\* C9: an identifier behind an operation declaration in the parentheses of an
\* abstract type is never parsed as a member: the cursor stays on it and parse
\* fails there, expecting the right parenthesis; in the body of a sub-type an
\* identifier starts a member and the implement keyword an implementation,
\* whatever was parsed before.
C9_MembersBeforeOperations ==
    /\ [](\A i \in IdentifierBehindDeclaration :
              /\ index = i - 1
              /\ pc \in {"L137", "L144", "fail"}
              /\ pc = "fail" =>
                     error = UnexpectedTokenType("RIGHT_PARENTHESIS", "IDENTIFIER"))
    /\ [][ /\ (pc = "L144" /\ InRange /\ current.type_ = "IDENTIFIER") => pc' = "fail"
           /\ (pc = "L174" /\ InRange /\ current.type_ = "IDENTIFIER")
                  => pc' = "L185" /\ error' = NoError
           /\ (pc = "L174" /\ InRange /\ current.type_ = "IMPLEMENT")
                  => pc' = "L194" /\ error' = NoError
         ]_vars

\* C9 witness: parse failed on an identifier behind an operation declaration.
C9_Witness ==
    /\ pc = "fail"
    /\ IdentifierBehindDeclaration # {}
    /\ error = UnexpectedTokenType("RIGHT_PARENTHESIS", "IDENTIFIER")

\* C10: once an end-of-input token is met the cursor never passes it, no token
\* behind it is read and no read is out of the bounds of the sequence; the
\* cursor starts at 0 and never decreases.
C10_CursorWithinInput ==
    /\ [](/\ index >= 0
          /\ \A i \in PositionsOf("END_OF_INPUT") :
                 /\ index <= i - 1
                 /\ Len(tokens) = i
                 /\ error # IndexError)
    /\ [][index' >= index]_vars

\* C10 witness: the parser stands on the end-of-input token, behind other tokens,
\* and Parser.consume has refused to pass it.
C10_Witness ==
    /\ pc = "fail"
    /\ index > 0
    /\ InRange
    /\ current.type_ = "END_OF_INPUT"
    /\ error = UnexpectedEndOfInput

====
